---- MODULE Spec2Model ----
(***************************************************************************)
(* KnowledgeGlow AI service: the knowledge item store (database.py), the   *)
(* knowledge routes that sit on it (routes/knowledge.py) and the content   *)
(* processing pipeline (routes/processing.py).                             *)
(*                                                                         *)
(* Text is a sequence of one-character strings, so that LIKE, substring    *)
(* search, split and strip are computed and not assumed.  A nullable       *)
(* value is Null (SQL NULL, Python None) or Val(v).                        *)
(***************************************************************************)
EXTENDS Integers, Sequences, FiniteSets, TLC

VARIABLES
    items,      \* table knowledge_items, in rowid order
    logs,       \* table ai_processing_logs, in rowid order
    now,        \* the value CURRENT_TIMESTAMP yields (one unit = one second)
    openConns,  \* connections opened by get_db_connection and not closed
    ret,        \* what the last store operation was given and what it returned
    deleted,    \* history: per id, how often delete_knowledge_item returned True
    proc,       \* what the last /process request was given and how it ended
    calling,    \* per worker, the update or delete call it is in and how far it is
    lock        \* the worker whose connection holds SQLite's write lock, or 0

vars == <<items, logs, now, openConns, ret, deleted, proc, calling, lock>>

-----------------------------------------------------------------------------
(* Bounds of the model *)

MaxItems == 2
MaxLogs == 2
MaxTime == 1
MaxLeaked == 1
MaxWorkers == 2

-----------------------------------------------------------------------------
(* Values *)

Null == <<>>
Val(v) == <<v>>

Min(a, b) == IF a < b THEN a ELSE b

\* the same CHECK with one value more
SourceTypesAndBogus == {"text", "url", "file", "bogus"}

\* CHECK (source_type IN ('text', 'url', 'file'))
SourceTypes == {"text", "url", "file"}

\* json.dumps of a list of strings: the tokens of the JSON text
RECURSIVE JoinComma(_)
JoinComma(l) ==
    IF Len(l) = 0 THEN <<>>
    ELSE IF Len(l) = 1 THEN <<l[1]>>
    ELSE <<l[1], ",">> \o JoinComma(Tail(l))

json_dumps(l) == <<"[">> \o JoinComma(l) \o <<"]">>

\* json.loads of such a text: the elements between the brackets, commas dropped
RECURSIVE SplitComma(_)
SplitComma(t) ==
    IF Len(t) = 0 THEN <<>>
    ELSE IF Head(t) = "," THEN SplitComma(Tail(t))
    ELSE <<Head(t)>> \o SplitComma(Tail(t))

json_loads(t) == SplitComma(SubSeq(t, 2, Len(t) - 1))

UpperChars == <<"A", "B", "C", "D", "E", "F", "G", "H", "I", "J", "K", "L", "M", "N", "O", "P", "Q", "R", "S", "T", "U", "V", "W", "X", "Y", "Z">>
LowerChars == <<"a", "b", "c", "d", "e", "f", "g", "h", "i", "j", "k", "l", "m", "n", "o", "p", "q", "r", "s", "t", "u", "v", "w", "x", "y", "z">>

\* the lower-case form of each ASCII capital
LowerOf ==
    [c \in {UpperChars[k] : k \in 1..26} |->
        LowerChars[CHOOSE k \in 1..26 : UpperChars[k] = c]]

\* the lower-case form of an ASCII character
Lower(c) == IF c \in DOMAIN LowerOf THEN LowerOf[c] ELSE c

\* Python truthiness of an Optional[list] / Optional[str]
Truthy(o) == o # Null /\ Len(o[1]) > 0

-----------------------------------------------------------------------------
(* Inputs *)

\* arguments of create_knowledge_item
CreateInputs == 1..4
CreateInput(i) ==
    CASE i = 1 -> [title |-> <<"A", "b">>, content |-> <<"x">>, source_type |-> "text",
                   source_url |-> Val("http://h"), tags |-> Null, summary |-> Null,
                   ai_analysis |-> Null]
      [] i = 2 -> [title |-> <<"c">>, content |-> <<"c", "_">>, source_type |-> "url",
                   source_url |-> Val("http://h"), tags |-> Val(<<>>),
                   summary |-> Val(<<"a", "b">>), ai_analysis |-> Val(<<"n">>)]
      [] i = 3 -> [title |-> <<>>, content |-> <<"x">>, source_type |-> "file",
                   source_url |-> Null, tags |-> Val(<<"t1", "t2">>),
                   summary |-> Val(<<>>), ai_analysis |-> Null]
      [] OTHER -> [title |-> <<"A", "b">>, content |-> <<"x">>, source_type |-> "bogus",
                   source_url |-> Null, tags |-> Val(<<"t1">>), summary |-> Null,
                   ai_analysis |-> Null]

\* keyword arguments of update_knowledge_item
UpdateInputs == 1..4
UpdateInput(i) ==
    CASE i = 1 -> <<>>
      [] i = 2 -> [bogus |-> "v", source_type |-> "file"]
      [] i = 3 -> [title |-> <<"b">>, tags |-> Val(<<"t3">>), id |-> 9,
                   source_type |-> "file", created_at |-> 7, is_active |-> FALSE]
      [] OTHER -> [tags |-> Val(<<>>), summary |-> Val(<<"a">>)]

\* search strings
Queries == 1..4
Query(i) ==
    CASE i = 1 -> <<"a">>
      [] i = 2 -> <<"_">>
      [] i = 3 -> <<"b", "%">>
      [] OTHER -> <<>>

Limits == {-1, 0, 1, 2}
Offsets == {0, 1, 2}
Ids == 1..(MaxItems + 1)


\* arguments of log_ai_processing
LogInputs == 1..3
LogInput(i) ==
    CASE i = 1 -> [knowledge_item_id |-> 1, processing_type |-> Val("summarize"),
                   input_text |-> Val(<<"x">>), output_text |-> Val(<<"x">>),
                   processing_time_ms |-> 5, status |-> "success",
                   error_message |-> Null]
      [] i = 2 -> [knowledge_item_id |-> 9, processing_type |-> Val("tag"),
                   input_text |-> Val(<<"x">>), output_text |-> Null,
                   processing_time_ms |-> 0, status |-> "error",
                   error_message |-> Val(<<"e">>)]
      [] OTHER -> [knowledge_item_id |-> 1, processing_type |-> Null,
                   input_text |-> Null, output_text |-> Null,
                   processing_time_ms |-> 0, status |-> "success",
                   error_message |-> Null]

-----------------------------------------------------------------------------
(* The store: database.py *)

\* the record of a store call: its arguments and its outcome
\* ok is the value returned (True/False of update and delete), id the id returned
\* or passed, raised whether the call ended in an exception
Ret(op, id, arg, ok, raised) ==
    [op |-> op, id |-> id, arg |-> arg, ok |-> ok, raised |-> raised]

NoRet == Ret("none", 0, 0, FALSE, FALSE)

\* dict(row) with the tags column parsed when it is a non-empty text
RowToItem(row) ==
    [row EXCEPT !.tags = IF Truthy(row.tags) THEN Val(json_loads(row.tags[1]))
                         ELSE row.tags]

\* the same WHERE clause without its is_active test
WithIdIgnoringActive(id) ==
    {r \in 1..Len(items) : items[r].id = id}

\* WHERE id = ? AND is_active = 1
ActiveWithId(id) ==
    {r \in 1..Len(items) : items[r].id = id /\ items[r].is_active}

\* WHERE is_active = 1
ActiveRows == {r \in 1..Len(items) : items[r].is_active}

\* ORDER BY created_at DESC: every order of the rows S that is non-increasing
\* in created_at; rows of equal created_at come in an order SQL leaves open
OrderByCreatedDesc(S) ==
    {s \in [1..Cardinality(S) -> S] :
        \A i, j \in 1..Cardinality(S) :
            i < j => s[i] # s[j] /\ items[s[i]].created_at >= items[s[j]].created_at}

\* LIMIT ? OFFSET ?: a negative LIMIT is no limit, a negative OFFSET is 0
LimitOffset(s, limit, offset) ==
    LET off == IF offset < 0 THEN 0 ELSE offset
        hi == IF limit < 0 THEN Len(s) ELSE Min(Len(s), off + limit)
    IN SubSeq(s, off + 1, hi)

ItemsOf(s) == [k \in 1..Len(s) |-> RowToItem(items[s[k]])]

\* x LIKE pattern: % is any run of characters, _ is any one character, and
\* ASCII letters compare without case

RECURSIVE LikeMatch(_, _)
LikeMatch(p, t) ==
    IF Len(p) = 0 THEN Len(t) = 0
    ELSE IF Head(p) = "%"
         THEN LikeMatch(Tail(p), t) \/ (Len(t) > 0 /\ LikeMatch(p, Tail(t)))
         ELSE /\ Len(t) > 0
              /\ (Head(p) = "_" \/ Lower(Head(p)) = Lower(Head(t)))
              /\ LikeMatch(Tail(p), Tail(t))

\* a NULL operand makes LIKE NULL, which WHERE takes as false
Like(col, pattern) == col # Null /\ LikeMatch(pattern, col[1])

get_knowledge_item(item_id) ==
    IF ActiveWithId(item_id) = {} THEN Null
    ELSE Val(RowToItem(items[CHOOSE r \in ActiveWithId(item_id) : TRUE]))

\* the results get_all_knowledge_items may return
get_all_knowledge_items(limit, offset) ==
    {ItemsOf(LimitOffset(s, limit, offset)) : s \in OrderByCreatedDesc(ActiveRows)}

\* the rows the WHERE clause of search_knowledge_items selects
SearchRows(query) ==
    LET search_term == <<"%">> \o query \o <<"%">>
    IN {r \in ActiveRows :
            \/ Like(Val(items[r].title), search_term)
            \/ Like(Val(items[r].content), search_term)
            \/ Like(items[r].summary, search_term)}

\* the results search_knowledge_items may return
search_knowledge_items(query, limit) ==
    {ItemsOf(LimitOffset(s, limit, 0)) : s \in OrderByCreatedDesc(SearchRows(query))}

-----------------------------------------------------------------------------
(* The list and search routes: routes/knowledge.py *)

\* limit: int = Query(default=100, le=1000) and Query(default=50, le=500)
ListLimitMax == 1000
SearchLimitMax == 500

\* the query parameters a request may carry: the limits and offsets of the
\* store calls, one limit above each cap, one offset below zero
RouteLimits == Limits \cup {SearchLimitMax + 1, ListLimitMax + 1}
RouteOffsets == Offsets \cup {-1}
RouteSearches == {Null} \cup {Val(Query(q)) : q \in Queries}

\* the requests FastAPI lets through to the handlers
ListAccepted(limit, offset) == limit <= ListLimitMax /\ offset >= 0
SearchAccepted(limit) == limit <= SearchLimitMax

\* GET /knowledge: the results the handler may return
get_knowledge_items(limit, offset, search) ==
    IF search # Null /\ Len(search[1]) > 0
    THEN search_knowledge_items(search[1], limit)
    ELSE get_all_knowledge_items(limit, offset)

\* GET /knowledge/search/{query}
search_route(query, limit) == search_knowledge_items(query, limit)

-----------------------------------------------------------------------------
(* Statistics: routes/knowledge.py *)

StatsScanLimit == 10000
PopularTagsLimit == 10

\* tags_count[tag] = tags_count.get(tag, 0) + 1 on a dict that keeps the order
\* in which its keys were first inserted
BumpTag(acc, tag) ==
    IF \E k \in 1..Len(acc) : acc[k][1] = tag
    THEN [k \in 1..Len(acc) |-> IF acc[k][1] = tag THEN <<tag, acc[k][2] + 1>> ELSE acc[k]]
    ELSE Append(acc, <<tag, 1>>)

RECURSIVE CountTags(_, _)
CountTags(acc, tags) ==
    IF Len(tags) = 0 THEN acc ELSE CountTags(BumpTag(acc, Head(tags)), Tail(tags))

RECURSIVE ScanTags(_, _)
ScanTags(acc, its) ==
    IF Len(its) = 0 THEN acc
    ELSE ScanTags(IF Truthy(Head(its).tags) THEN CountTags(acc, Head(its).tags[1]) ELSE acc,
                  Tail(its))

\* sorted(..., key=count, reverse=True): stable, equal counts keep their order
RECURSIVE InsertByCountDesc(_, _)
InsertByCountDesc(s, x) ==
    IF Len(s) = 0 THEN <<x>>
    ELSE IF Head(s)[2] >= x[2] THEN <<Head(s)>> \o InsertByCountDesc(Tail(s), x)
    ELSE <<x>> \o s

RECURSIVE SortByCountDesc(_, _)
SortByCountDesc(acc, rest) ==
    IF Len(rest) = 0 THEN acc
    ELSE SortByCountDesc(InsertByCountDesc(acc, Head(rest)), Tail(rest))

\* the statistics computed from one scan
StatsOf(scan) ==
    LET types == {scan[k].source_type : k \in 1..Len(scan)}
        sorted == SortByCountDesc(<<>>, ScanTags(<<>>, scan))
    IN [total_items |-> Len(scan),
        source_types |-> [t \in types |->
                            Cardinality({k \in 1..Len(scan) : scan[k].source_type = t})],
        popular_tags |-> SubSeq(sorted, 1, Min(PopularTagsLimit, Len(sorted)))]

\* the results get_knowledge_stats may return
get_knowledge_stats == {StatsOf(scan) : scan \in get_all_knowledge_items(StatsScanLimit, 0)}

-----------------------------------------------------------------------------
(* The operations that write the store, as actions.  The operations that    *)
(* only read it (get, list, search, stats) are the operators above: each    *)
(* gives, for the current tables, the result or the set of results the     *)
(* call may return.                                                         *)

\* the same list with source_type let through
UpdatableColumnsAndSourceType ==
    {"title", "content", "source_url", "tags", "summary", "ai_analysis", "source_type"}

\* the columns update_knowledge_item accepts
UpdatableColumns == {"title", "content", "source_url", "tags", "summary", "ai_analysis"}

\* tags_json = json.dumps(tags) if tags else None
CreateTagsJson(tags) == IF Truthy(tags) THEN Val(json_dumps(tags[1])) ELSE Null

\* if 'tags' in kwargs and isinstance(kwargs['tags'], list): json.dumps
UpdateTagsJson(kwargs) ==
    IF "tags" \in DOMAIN kwargs /\ kwargs.tags # Null
    THEN [kwargs EXCEPT !.tags = Val(json_dumps(kwargs.tags[1]))]
    ELSE kwargs

\* the same test, never true
NothingToSetNever(cols) == FALSE

\* if not set_clauses: return False
NothingToSet(cols) == cols = {}

\* UPDATE ... SET <cols>, updated_at = CURRENT_TIMESTAMP on one row
UpdatedRow(row, cols, values) ==
    LET New(c) == IF c \in cols THEN values[c] ELSE row[c]
    IN [id |-> New("id"), title |-> New("title"), content |-> New("content"),
        source_type |-> New("source_type"), source_url |-> New("source_url"),
        tags |-> New("tags"), summary |-> New("summary"),
        ai_analysis |-> New("ai_analysis"), created_at |-> New("created_at"),
        updated_at |-> now, is_active |-> New("is_active")]

\* the same UPDATE without updated_at = CURRENT_TIMESTAMP
DeletedRowKeepingTime(row) == [row EXCEPT !.is_active = FALSE]

\* UPDATE ... SET is_active = 0, updated_at = CURRENT_TIMESTAMP on one row
DeletedRow(row) == [row EXCEPT !.is_active = FALSE, !.updated_at = now]

\* the wall clock passes one second
Tick ==
    /\ now < MaxTime
    /\ now' = now + 1
    /\ ret' = NoRet
    /\ UNCHANGED <<items, logs, openConns, deleted, proc, calling, lock>>

Create(i) ==
    LET in == CreateInput(i)
        item_id == Len(items) + 1
        row == [id |-> item_id, title |-> in.title, content |-> in.content,
                source_type |-> in.source_type, source_url |-> in.source_url,
                tags |-> CreateTagsJson(in.tags), summary |-> in.summary,
                ai_analysis |-> in.ai_analysis, created_at |-> now,
                updated_at |-> now, is_active |-> TRUE]
    IN IF in.source_type \in SourceTypes
       THEN /\ Len(items) < MaxItems
            /\ items' = Append(items, row)
            /\ ret' = Ret("create", item_id, i, TRUE, FALSE)
            /\ UNCHANGED <<logs, now, openConns, deleted, proc, calling, lock>>
       ELSE \* the CHECK constraint fails: execute raises, close() is not reached
            /\ openConns < MaxLeaked
            /\ openConns' = openConns + 1
            /\ ret' = Ret("create", 0, i, FALSE, TRUE)
            /\ UNCHANGED <<items, logs, now, deleted, proc, calling, lock>>

Update(item_id, i) ==
    LET kwargs == UpdateInput(i)
    IN IF DOMAIN kwargs = {}
       THEN /\ ret' = Ret("update", item_id, i, FALSE, FALSE)
            /\ UNCHANGED <<items, logs, now, openConns, deleted, proc, calling, lock>>
       ELSE LET values == UpdateTagsJson(kwargs)
                cols == DOMAIN kwargs \cap UpdatableColumns
                affected == ActiveWithId(item_id)
            IN IF NothingToSet(cols)
               THEN /\ ret' = Ret("update", item_id, i, FALSE, FALSE)
                    /\ UNCHANGED <<items, logs, now, openConns, deleted, proc, calling, lock>>
               ELSE /\ items' = [r \in 1..Len(items) |->
                                   IF r \in affected
                                   THEN UpdatedRow(items[r], cols, values)
                                   ELSE items[r]]
                    /\ ret' = Ret("update", item_id, i, affected # {}, FALSE)
                    /\ UNCHANGED <<logs, now, openConns, deleted, proc, calling, lock>>

Delete(item_id) ==
    LET affected == ActiveWithId(item_id)
    IN /\ items' = [r \in 1..Len(items) |->
                      IF r \in affected THEN DeletedRow(items[r]) ELSE items[r]]
       /\ ret' = Ret("delete", item_id, 0, affected # {}, FALSE)
       /\ deleted' = IF affected # {} THEN [deleted EXCEPT ![item_id] = @ + 1] ELSE deleted
       /\ UNCHANGED <<logs, now, openConns, proc, calling, lock>>

\* the same with PRAGMA foreign_keys = ON
ForeignKeyEnforced(knowledge_item_id) ==
    \E k \in 1..Len(items) : items[k].id = knowledge_item_id

\* FOREIGN KEY (knowledge_item_id) REFERENCES knowledge_items(id): SQLite checks
\* it only on a connection that has turned foreign keys on, and
\* get_db_connection does not
ForeignKeyHolds(knowledge_item_id) == TRUE

LogProcessing(i) ==
    LET in == LogInput(i)
        log_id == Len(logs) + 1
        row == [id |-> log_id, knowledge_item_id |-> in.knowledge_item_id,
                processing_type |-> in.processing_type, input_text |-> in.input_text,
                output_text |-> in.output_text,
                processing_time_ms |-> in.processing_time_ms, status |-> in.status,
                error_message |-> in.error_message, created_at |-> now]
    IN IF in.processing_type # Null /\ ForeignKeyHolds(in.knowledge_item_id)
       THEN /\ Len(logs) < MaxLogs
            /\ logs' = Append(logs, row)
            /\ ret' = Ret("log", log_id, i, TRUE, FALSE)
            /\ UNCHANGED <<items, now, openConns, deleted, proc, calling, lock>>
       ELSE \* a constraint fails: execute raises, no close()
            /\ openConns < MaxLeaked
            /\ openConns' = openConns + 1
            /\ ret' = Ret("log", 0, i, FALSE, TRUE)
            /\ UNCHANGED <<items, logs, now, deleted, proc, calling, lock>>

-----------------------------------------------------------------------------
(* update_knowledge_item and delete_knowledge_item called by several        *)
(* workers at once, statement by statement.  Each call opens its own        *)
(* connection; its UPDATE runs in a transaction of that connection, which   *)
(* holds the write lock of the database file from the statement to the      *)
(* commit, and what it wrote is in the table from the commit on.            *)

Workers == 1..MaxWorkers

\* the calls the workers make: delete, and the update that sets title and tags
RaceOps == {"delete", "update"}
RaceUpdate == UpdateInput(3)
RaceCreateInputs == {1, 3}
RaceIds == 1..MaxItems

Idle == [op |-> "none", id |-> 0, pc |-> "idle", rowcount |-> 0, pending |-> Null,
         on_active |-> FALSE, ok |-> FALSE]

\* the same without the write lock: every statement runs at once
WritesAtOnce(p) == TRUE

\* conn.execute of a writing statement waits until no other connection holds
\* the write lock
CanWrite(p) == lock = 0

\* the call is entered and conn = get_db_connection() is done
\* (on_active: history, whether the item was active when the call came in)
Call(p, op, item_id) ==
    /\ calling[p].pc \in {"idle", "done"}
    /\ calling' = [calling EXCEPT ![p] =
                    [op |-> op, id |-> item_id, pc |-> "opened", rowcount |-> 0,
                     pending |-> Null, on_active |-> ActiveWithId(item_id) # {},
                     ok |-> FALSE]]
    /\ UNCHANGED <<items, logs, now, openConns, ret, deleted, proc, lock>>

\* cursor = conn.execute(UPDATE ... WHERE id = ? AND is_active = 1);
\* affected = cursor.rowcount
Execute(p) ==
    LET c == calling[p]
        affected == ActiveWithId(c.id)
        values == UpdateTagsJson(RaceUpdate)
        cols == DOMAIN RaceUpdate \cap UpdatableColumns
        written(row) == IF c.op = "delete" THEN DeletedRow(row)
                        ELSE UpdatedRow(row, cols, values)
    IN /\ c.pc = "opened"
       /\ CanWrite(p)
       /\ lock' = p
       /\ calling' = [calling EXCEPT ![p] =
                       [c EXCEPT !.pc = "executed",
                                 !.rowcount = Cardinality(affected),
                                 !.pending = IF affected = {} THEN Null
                                             ELSE Val(written(items[CHOOSE r \in affected : TRUE]))]]
       /\ UNCHANGED <<items, logs, now, openConns, ret, deleted, proc>>

\* conn.commit(): the row written is in the table, the lock is given up
Commit(p) ==
    LET c == calling[p]
    IN /\ c.pc = "executed"
       /\ items' = [r \in 1..Len(items) |->
                       IF c.pending # Null /\ items[r].id = c.id THEN c.pending[1]
                       ELSE items[r]]
       /\ lock' = IF lock = p THEN 0 ELSE lock
       /\ deleted' = IF c.op = "delete" /\ c.rowcount > 0
                     THEN [deleted EXCEPT ![c.id] = @ + 1] ELSE deleted
       /\ calling' = [calling EXCEPT ![p] = [c EXCEPT !.pc = "committed"]]
       /\ UNCHANGED <<logs, now, openConns, ret, proc>>

\* conn.close(); return affected > 0
Return(p) ==
    LET c == calling[p]
    IN /\ c.pc = "committed"
       /\ calling' = [calling EXCEPT ![p] = [c EXCEPT !.pc = "done", !.ok = c.rowcount > 0]]
       /\ UNCHANGED <<items, logs, now, openConns, ret, deleted, proc, lock>>

\* a create between the calls: its INSERT needs the write lock as well
RaceCreate(i) == CanWrite(0) /\ Create(i)

-----------------------------------------------------------------------------
(* Content processing: routes/processing.py *)

SchemeChars == {LowerChars[k] : k \in 1..26} \cup {UpperChars[k] : k \in 1..26}
                 \cup {"0", "1", "2", "3", "4", "5", "6", "7", "8", "9", "+", "-", "."}
Whitespace == {" ", "\n", "\t"}

\* str.lower()
LowerText(t) == [k \in 1..Len(t) |-> Lower(t[k])]

\* w in t, for strings
Contains(t, w) == \E k \in 0..(Len(t) - Len(w)) : \A j \in 1..Len(w) : t[k + j] = w[j]

\* str.strip()
RECURSIVE LStrip(_)
LStrip(t) == IF Len(t) > 0 /\ Head(t) \in Whitespace THEN LStrip(Tail(t)) ELSE t

RECURSIVE RStrip(_)
RStrip(t) ==
    IF Len(t) > 0 /\ t[Len(t)] \in Whitespace THEN RStrip(SubSeq(t, 1, Len(t) - 1)) ELSE t

Strip(t) == RStrip(LStrip(t))

\* str.split(): the maximal runs of non-whitespace characters, left to right.
\* No run spans a whitespace character, so the text is cut at one (the first
\* at or after the middle when there is one) and the halves are split alike.
RECURSIVE Split(_)
Split(t) ==
    IF \A k \in 1..Len(t) : t[k] \notin Whitespace
    THEN (IF Len(t) = 0 THEN <<>> ELSE <<t>>)
    ELSE LET mid == (Len(t) + 1) \div 2
             p == IF \E k \in mid..Len(t) : t[k] \in Whitespace
                  THEN CHOOSE k \in mid..Len(t) : t[k] \in Whitespace
                  ELSE CHOOSE k \in 1..(mid - 1) : t[k] \in Whitespace
         IN  Split(SubSeq(t, 1, p - 1)) \o Split(SubSeq(t, p + 1, Len(t)))

\* sep.join(words)
RECURSIVE Join(_, _)
Join(sep, words) ==
    IF Len(words) = 0 THEN <<>>
    ELSE IF Len(words) = 1 THEN words[1]
    ELSE words[1] \o sep \o Join(sep, Tail(words))

\* urlparse(url).scheme: the characters before the first ":" when they start
\* with a letter and are all scheme characters
ColonAt(url) ==
    IF \E k \in 1..Len(url) : url[k] = ":"
    THEN CHOOSE k \in 1..Len(url) : url[k] = ":" /\ \A m \in 1..(k - 1) : url[m] # ":"
    ELSE 0

HasScheme(url) ==
    /\ ColonAt(url) > 1
    /\ url[1] \in SchemeChars \ {"0", "1", "2", "3", "4", "5", "6", "7", "8", "9", "+", "-", "."}
    /\ \A m \in 1..(ColonAt(url) - 1) : url[m] \in SchemeChars

UrlScheme(url) == IF HasScheme(url) THEN LowerText(SubSeq(url, 1, ColonAt(url) - 1)) ELSE <<>>

AfterScheme(url) == IF HasScheme(url) THEN SubSeq(url, ColonAt(url) + 1, Len(url)) ELSE url

\* urlparse(url).netloc: after a leading "//", up to the first "/", "?" or "#"
RECURSIVE UpToDelimiter(_)
UpToDelimiter(t) ==
    IF Len(t) = 0 \/ Head(t) \in {"/", "?", "#"} THEN <<>>
    ELSE <<Head(t)>> \o UpToDelimiter(Tail(t))

UrlNetloc(url) ==
    LET rest == AfterScheme(url)
    IN IF Len(rest) >= 2 /\ rest[1] = "/" /\ rest[2] = "/"
       THEN UpToDelimiter(SubSeq(rest, 3, Len(rest)))
       ELSE <<>>

\* re.sub(r'<[^>]+>', ' ', content)
CloseAt(t) ==
    \* t starts with "<": the index of the ">" that ends the tag, 0 when none
    IF \E k \in 3..Len(t) : t[k] = ">" /\ \A m \in 2..(k - 1) : t[m] # ">"
    THEN CHOOSE k \in 3..Len(t) : t[k] = ">" /\ \A m \in 2..(k - 1) : t[m] # ">"
    ELSE 0

RECURSIVE StripTags(_)
StripTags(t) ==
    IF Len(t) = 0 THEN <<>>
    ELSE IF Head(t) = "<" /\ CloseAt(t) > 0
         THEN <<" ">> \o StripTags(SubSeq(t, CloseAt(t) + 1, Len(t)))
         ELSE <<Head(t)>> \o StripTags(Tail(t))

\* re.sub(r'\s+', ' ', text)
RECURSIVE CollapseSpace(_)
CollapseSpace(t) ==
    IF Len(t) = 0 THEN <<>>
    ELSE IF Head(t) \in Whitespace
         THEN <<" ">> \o CollapseSpace(LStrip(t))
         ELSE <<Head(t)>> \o CollapseSpace(Tail(t))

MaxCleanText == 5000
Ellipsis == <<".", ".", ".">>

\* the text extract_text_from_url makes of a response body
CleanText(content) ==
    LET clean_text == Strip(CollapseSpace(StripTags(content)))
    IN IF Len(clean_text) > MaxCleanText
       THEN SubSeq(clean_text, 1, MaxCleanText) \o Ellipsis
       ELSE clean_text

\* the trigger words of the five tag buckets
AiWords ==
    {<<"a", "i">>,
     <<"a", "r", "t", "i", "f", "i", "c", "i", "a", "l", " ", "i", "n", "t", "e", "l", "l", "i", "g", "e", "n", "c", "e">>,
     <<"m", "a", "c", "h", "i", "n", "e", " ", "l", "e", "a", "r", "n", "i", "n", "g">>,
     <<"m", "l">>}

DevelopmentWords ==
    {<<"p", "y", "t", "h", "o", "n">>,
     <<"j", "a", "v", "a", "s", "c", "r", "i", "p", "t">>,
     <<"p", "r", "o", "g", "r", "a", "m", "m", "i", "n", "g">>,
     <<"c", "o", "d", "e">>,
     <<"d", "e", "v", "e", "l", "o", "p", "m", "e", "n", "t">>}

DatabaseWords ==
    {<<"d", "a", "t", "a", "b", "a", "s", "e">>,
     <<"s", "q", "l">>,
     <<"d", "a", "t", "a">>}

WebWords ==
    {<<"w", "e", "b">>,
     <<"h", "t", "t", "p">>,
     <<"a", "p", "i">>,
     <<"r", "e", "s", "t">>}

ResearchWords ==
    {<<"r", "e", "s", "e", "a", "r", "c", "h">>,
     <<"s", "t", "u", "d", "y">>,
     <<"a", "n", "a", "l", "y", "s", "i", "s">>}

AnyIn(words, text_lower) == \E w \in words : Contains(text_lower, w)

\* summary: the first min(50, len(words) // 3) words, "..." when words remain
SummaryWordLimit == 50

\* the same without the cap of fifty words
SummaryOfUncapped(text) ==
    LET words == Split(text)
        summary_length == Len(words) \div 3
        summary == Join(<<" ">>, SubSeq(words, 1, summary_length))
    IN IF Len(words) > summary_length THEN summary \o Ellipsis ELSE summary

SummaryOf(text) ==
    LET words == Split(text)
        summary_length == Min(SummaryWordLimit, Len(words) \div 3)
        summary == Join(<<" ">>, SubSeq(words, 1, summary_length))
    IN IF Len(words) > summary_length THEN summary \o Ellipsis ELSE summary

\* the same with the fallback tags added to whatever was collected
TagsWithFallbackAdded(text) ==
    LET text_lower == LowerText(text)
    IN (IF AnyIn(AiWords, text_lower) THEN <<"AI">> ELSE <<>>)
       \o (IF AnyIn(DevelopmentWords, text_lower) THEN <<"Development">> ELSE <<>>)
       \o (IF AnyIn(DatabaseWords, text_lower) THEN <<"Database">> ELSE <<>>)
       \o (IF AnyIn(WebWords, text_lower) THEN <<"Web">> ELSE <<>>)
       \o (IF AnyIn(ResearchWords, text_lower) THEN <<"Research">> ELSE <<>>)
       \o <<"General", "Knowledge">>

TagsOf(text) ==
    LET text_lower == LowerText(text)
        tags == (IF AnyIn(AiWords, text_lower) THEN <<"AI">> ELSE <<>>)
                \o (IF AnyIn(DevelopmentWords, text_lower) THEN <<"Development">> ELSE <<>>)
                \o (IF AnyIn(DatabaseWords, text_lower) THEN <<"Database">> ELSE <<>>)
                \o (IF AnyIn(WebWords, text_lower) THEN <<"Web">> ELSE <<>>)
                \o (IF AnyIn(ResearchWords, text_lower) THEN <<"Research">> ELSE <<>>)
    IN IF Len(tags) = 0 THEN <<"General", "Knowledge">> ELSE tags

\* ', '.join(tags).lower(), tag by tag
TagLower(tag) ==
    CASE tag = "AI" -> "ai"
      [] tag = "Development" -> "development"
      [] tag = "Database" -> "database"
      [] tag = "Web" -> "web"
      [] tag = "Research" -> "research"
      [] tag = "General" -> "general"
      [] OTHER -> "knowledge"

\* the same with the clause chosen by the trigger words of the tag buckets
TopicClauseByBuckets(text) ==
    LET text_lower == LowerText(text)
    IN IF AnyIn(AiWords, text_lower)
       THEN "artificial intelligence concepts and applications."
       ELSE IF AnyIn(DevelopmentWords, text_lower)
            THEN "software development practices and methodologies."
            ELSE IF AnyIn(DatabaseWords, text_lower)
                 THEN "database design and management principles."
                 ELSE "general knowledge and information."

TopicClause(text) ==
    LET text_lower == LowerText(text)
    IN IF Contains(text_lower, <<"a", "i">>)
          \/ Contains(text_lower, <<"a", "r", "t", "i", "f", "i", "c", "i", "a", "l", " ", "i", "n", "t", "e", "l", "l", "i", "g", "e", "n", "c", "e">>)
       THEN "artificial intelligence concepts and applications."
       ELSE IF Contains(text_lower, <<"d", "e", "v", "e", "l", "o", "p", "m", "e", "n", "t">>)
               \/ Contains(text_lower, <<"p", "r", "o", "g", "r", "a", "m", "m", "i", "n", "g">>)
            THEN "software development practices and methodologies."
            ELSE IF Contains(text_lower, <<"d", "a", "t", "a", "b", "a", "s", "e">>)
                 THEN "database design and management principles."
                 ELSE "general knowledge and information."

\* the narrative "This content appears to be about <about>. The text contains
\* approximately <words> words and covers <covers>", by its three slots
AnalysisOf(text) ==
    [about |-> [k \in 1..Len(TagsOf(text)) |-> TagLower(TagsOf(text)[k])],
     words |-> Len(Split(text)),
     covers |-> TopicClause(text)]

mock_ai_processing(text) ==
    [summary |-> SummaryOf(text), tags |-> TagsOf(text), analysis |-> Val(AnalysisOf(text))]

\* ProcessingRequest: the values of text and url, and of the response to the
\* one requests.get call
Texts == 1..9
\* the texts handed to the analysis engine directly: the last one has 160 words
EngineTexts == 1..10
TextTable ==
    << <<>>,
       <<"h", "i">>,
       <<" ", " ", " ", "s", "h", "o", "r", "t", " ", " ", " ">>,
       <<"l", "e", "a", "r", "n", " ", "A", "I", " ", "a", "n", "d", " ", "p", "y", "t", "h", "o", "n", " ", "c", "o", "d", "e">>,
       <<"h", "e", "l", "l", "o", " ", "b", "i", "g", " ", "w", "i", "d", "e", " ", "w", "o", "r", "l", "d">>,
       <<"T", "h", "i", "s", " ", "p", "r", "o", "j", "e", "c", "t", " ", "u", "s", "e", "s", " ", "P", "y", "t", "h", "o", "n", " ", "a", "n", "d", " ", "a", " ", "S", "Q", "L", " ", "d", "a", "t", "a", "b", "a", "s", "e", " ", "f", "o", "r", " ", "w", "e", "b", " ", "A", "P", "I", "s">>,
       <<"m", "l", " ", "r", "e", "s", "e", "a", "r", "c", "h", " ", "p", "r", "o", "g", "r", "a", "m", "m", "i", "n", "g">>,
       <<"z", "z", "z", "z", "z", "z", "z", "z", "z", "z">>,
       <<"z", "z", "z", "z", "z", " ", "y", "y", "y", "y", "y">>,
       \* 160 words of one letter
       [k \in 1..320 |-> IF k % 2 = 1 THEN "z" ELSE " "] >>
Text(i) == TextTable[i]

Urls == 1..5
Url(i) ==
    CASE i = 1 -> <<>>
      [] i = 2 -> <<"n", "o", "t", "-", "a", "-", "u", "r", "l">>
      [] i = 3 -> <<"h", "t", "t", "p", ":">>
      [] i = 4 -> <<"/", "/", "h">>
      [] OTHER -> <<"h", "t", "t", "p", ":", "/", "/", "h", "/", "p">>

\* what requests.get and raise_for_status do: a body, an exception of
\* requests.get, or a status that raise_for_status turns into an exception
NetOutcomes == 1..4
NetOutcome(i) ==
    CASE i = 1 -> [kind |-> "ok", body |-> <<"<", "p", ">", "a", "i", " ", "c", "o", "d", "e", " ", "d", "a", "t", "a", "<", "/", "p", ">">>, msg |-> ""]
      [] i = 2 -> [kind |-> "ok", body |-> <<"<", "b", ">", "h", "i", "<", "/", "b", ">">>, msg |-> ""]
      [] i = 3 -> [kind |-> "raises", body |-> <<>>, msg |-> "Connection refused"]
      [] OTHER -> [kind |-> "status", body |-> <<>>, msg |-> "404 Client Error"]

\* an exception that is no HTTPException, raised inside the try block of
\* process_content: none, one with a message, one whose str() is empty
Faults == {"none", "boom", ""}

RequestSourceTypes == {"text", "url", "file"}
MinContentLength == 10

\* parsed.scheme and parsed.netloc are both non-empty
WellFormedUrl(url) == Len(UrlScheme(url)) > 0 /\ Len(UrlNetloc(url)) > 0

\* raise HTTPException(status_code, detail)
HttpException(status_code, detail, calls) ==
    [kind |-> "http_exception", status_code |-> status_code, detail |-> detail,
     status |-> "", summary |-> <<>>, tags |-> <<>>, analysis |-> <<>>, error |-> "",
     calls |-> calls]

\* return ProcessingResponse(...)
ProcessingResponse(summary, tags, analysis, status, error, calls) ==
    [kind |-> "response", status_code |-> 200, detail |-> <<>>, status |-> status,
     summary |-> summary, tags |-> tags, analysis |-> analysis, error |-> error,
     calls |-> calls]

\* the same with requests.get called before the URL is looked at
FetchBeforeValidating(url, net) ==
    IF ~WellFormedUrl(url) \/ net.kind # "ok"
    THEN [raised |-> TRUE, calls |-> 1, text |-> <<>>,
          detail |-> <<"Failed to extract content from URL: ", "Invalid URL format">>]
    ELSE [raised |-> FALSE, calls |-> 1, text |-> CleanText(net.body), detail |-> <<>>]

\* extract_text_from_url: the text, or the HTTPException every failure becomes;
\* calls counts the requests.get calls made
extract_text_from_url(url, net) ==
    IF ~WellFormedUrl(url)
    THEN [raised |-> TRUE, calls |-> 0, text |-> <<>>,
          detail |-> <<"Failed to extract content from URL: ", "Invalid URL format">>]
    ELSE IF net.kind # "ok"
         THEN [raised |-> TRUE, calls |-> 1, text |-> <<>>,
               detail |-> <<"Failed to extract content from URL: ", net.msg>>]
         ELSE [raised |-> FALSE, calls |-> 1, text |-> CleanText(net.body),
               detail |-> <<>>]

\* the same with the length taken of the text as given, blanks included
AnalyseUntrimmed(text_content, fault, calls) ==
    IF Len(text_content) < MinContentLength
    THEN HttpException(400, <<"Content too short for processing">>, calls)
    ELSE IF fault # "none"
         THEN ProcessingResponse(<<>>, <<>>, <<>>, "error", fault, calls)
         ELSE LET ai_result == mock_ai_processing(text_content)
              IN ProcessingResponse(ai_result.summary, ai_result.tags,
                                    ai_result.analysis, "success", "", calls)

\* the rest of the try block once text_content is known
AnalyseContent(text_content, fault, calls) ==
    IF Len(Strip(text_content)) < MinContentLength
    THEN HttpException(400, <<"Content too short for processing">>, calls)
    ELSE IF fault # "none"
         THEN \* except Exception as e: a result with status "error"
              ProcessingResponse(<<>>, <<>>, <<>>, "error", fault, calls)
         ELSE LET ai_result == mock_ai_processing(text_content)
              IN ProcessingResponse(ai_result.summary, ai_result.tags,
                                    ai_result.analysis, "success", "", calls)

\* an HTTPException turned into a result with status "error"
ReturnedAsResult(exc) ==
    ProcessingResponse(<<>>, <<>>, <<>>, "error", "HTTPException", exc.calls)

\* except HTTPException: raise
Reraise(exc) == exc

process_content(source_type, text, url, net, fault) ==
    IF source_type = "url" /\ Len(url) > 0
    THEN LET ex == extract_text_from_url(url, net)
         IN IF ex.raised THEN Reraise(HttpException(400, ex.detail, ex.calls))
            ELSE AnalyseContent(ex.text, fault, ex.calls)
    ELSE IF source_type = "text" /\ Len(text) > 0
         THEN AnalyseContent(text, fault, 0)
         ELSE Reraise(HttpException(400, <<"No valid content provided">>, 0))

\* the request reaches requests.get
Fetches(source_type, url) == source_type = "url" /\ Len(url) > 0 /\ WellFormedUrl(url)

\* the request reaches mock_ai_processing
Analyses(source_type, text, url, net) ==
    LET text_content == IF source_type = "url" THEN CleanText(net.body) ELSE text
    IN /\ \/ Fetches(source_type, url) /\ net.kind = "ok"
          \/ source_type = "text" /\ Len(text) > 0
       /\ Len(Strip(text_content)) >= MinContentLength

NoNet == [kind |-> "none", body |-> <<>>, msg |-> ""]

\* one POST /process, from request to response
Process(source_type, ti, ui, ni, fault) ==
    LET net == IF ni = 0 THEN NoNet ELSE NetOutcome(ni)
    IN /\ (ni # 0) <=> Fetches(source_type, Url(ui))
       /\ fault # "none" => Analyses(source_type, Text(ti), Url(ui), net)
       /\ proc' = [op |-> "process", source_type |-> source_type, text |-> ti,
                   url |-> ui, net |-> ni, fault |-> fault,
                   out |-> process_content(source_type, Text(ti), Url(ui), net, fault)]
       /\ UNCHANGED <<items, logs, now, openConns, ret, deleted, calling, lock>>

\* mock_ai_processing called on a text, as the analysis engine by itself
Analyze(ti) ==
    /\ proc' = [op |-> "analyze", text |-> ti, out |-> mock_ai_processing(Text(ti))]
    /\ UNCHANGED <<items, logs, now, openConns, ret, deleted, calling, lock>>

NoProc == [op |-> "none"]

Init ==
    /\ items = <<>>
    /\ logs = <<>>
    /\ now = 0
    /\ openConns = 0
    /\ ret = NoRet
    /\ deleted = [id \in Ids |-> 0]
    /\ proc = NoProc
    /\ calling = [p \in Workers |-> Idle]
    /\ lock = 0

Next ==
    \/ Tick
    \/ \E i \in CreateInputs : Create(i)
    \/ \E id \in Ids, i \in UpdateInputs : Update(id, i)
    \/ \E id \in Ids : Delete(id)

Spec == Init /\ [][Next]_vars

\* the processing log beside the items it refers to
\* the update calls made next to the log: the one that changes title and tags
LogUpdateInputs == {3}

NextLog ==
    \/ Tick
    \/ \E i \in CreateInputs : Create(i)
    \/ \E id \in Ids, i \in LogUpdateInputs : Update(id, i)
    \/ \E id \in Ids : Delete(id)
    \/ \E i \in LogInputs : LogProcessing(i)

SpecLog == Init /\ [][NextLog]_vars

NextRace ==
    \/ Tick
    \/ \E i \in RaceCreateInputs : RaceCreate(i)
    \/ \E p \in Workers, op \in RaceOps, item_id \in RaceIds : Call(p, op, item_id)
    \/ \E p \in Workers : Execute(p)
    \/ \E p \in Workers : Commit(p)
    \/ \E p \in Workers : Return(p)

SpecRace == Init /\ [][NextRace]_vars

\* the processing pipeline, which does not touch the store
NextProcess ==
    \/ \E source_type \in RequestSourceTypes, ti \in Texts, ui \in Urls,
          ni \in {0} \cup NetOutcomes, fault \in Faults :
           Process(source_type, ti, ui, ni, fault)
    \/ \E ti \in EngineTexts : Analyze(ti)

SpecProcess == Init /\ [][NextProcess]_vars

-----------------------------------------------------------------------------
(* Properties of the store *)

\* the rows whose delete never returned True
Live == {r \in 1..Len(items) : deleted[items[r].id] = 0}

\* how often tag occurs in the tags of the rows S
TagOccurrences(S, tag) ==
    Cardinality({<<r, k>> \in S \X (1..4) :
                    /\ Truthy(RowToItem(items[r]).tags)
                    /\ k <= Len(RowToItem(items[r]).tags[1])
                    /\ RowToItem(items[r]).tags[1][k] = tag})

HasId(rows, id) == \E k \in 1..Len(rows) : rows[k].id = id

\* C1: once delete(id) has returned true, get(id) finds nothing, no result of
\* list or search holds the item, stats counts only the other items (total,
\* per source type, per tag), and delete(id) has returned true only that once.
C1_DeletedStaysGone ==
    \A id \in Ids :
        deleted[id] >= 1 =>
            /\ deleted[id] = 1
            /\ get_knowledge_item(id) = Null
            /\ \A limit \in Limits, offset \in Offsets :
                   \A rows \in get_all_knowledge_items(limit, offset) : ~HasId(rows, id)
            /\ \A q \in Queries, limit \in Limits :
                   \A rows \in search_knowledge_items(Query(q), limit) : ~HasId(rows, id)
            /\ \A st \in get_knowledge_stats :
                   /\ st.total_items = Cardinality(Live)
                   /\ \A t \in DOMAIN st.source_types :
                          st.source_types[t]
                              = Cardinality({r \in Live : items[r].source_type = t})
                   /\ \A k \in 1..Len(st.popular_tags) :
                          st.popular_tags[k][2]
                              = TagOccurrences(Live, st.popular_tags[k][1])

\* a second delete of a deleted item has just returned false, beside an item
\* that is still there
C1_Witness ==
    /\ ret.op = "delete" /\ ~ret.ok
    /\ deleted[ret.id] = 1
    /\ Live # {}
    /\ \E r \in 1..Len(items) : ~items[r].is_active /\ Truthy(items[r].tags)

\* the field names the store's contract lets update change
ContractFields == {"title", "content", "source_url", "tags", "summary", "ai_analysis"}

Recognized(i) == DOMAIN UpdateInput(i) \cap ContractFields

\* the input fields of create as get_knowledge_item gives them back
InputFieldsOf(item) ==
    [title |-> item.title, content |-> item.content, source_type |-> item.source_type,
     source_url |-> item.source_url, tags |-> item.tags, summary |-> item.summary,
     ai_analysis |-> item.ai_analysis]

\* C2: right after create returned an id, get(id) gives back title, content,
\* sourceType, sourceUrl, tags, summary and aiAnalysis exactly as passed, with
\* tags absent, an empty list or a non-empty list.
C2_CreateGetRoundTrip ==
    (ret.op = "create" /\ ~ret.raised) =>
        /\ get_knowledge_item(ret.id) # Null
        /\ InputFieldsOf(get_knowledge_item(ret.id)[1]) = CreateInput(ret.arg)

\* C3: an update whose field set is empty or holds only unrecognized names
\* returns false and changes no stored item, whatever the id.
C3_EmptyUpdateIsNoOp ==
    [][(ret'.op = "update" /\ Recognized(ret'.arg) = {})
          => (~ret'.ok /\ items' = items)]_vars

\* such an update was just made on an item that exists and is active
C3_Witness ==
    /\ ret.op = "update" /\ ret.arg = 2 /\ ~ret.ok
    /\ ActiveWithId(ret.id) # {}

\* C4: an update with a recognized field returns true exactly when an active
\* item has the id, and when it returns false no item is changed.
C4_UpdateTrueIffActive ==
    [][(ret'.op = "update" /\ Recognized(ret'.arg) # {})
          => /\ ret'.ok <=> (\E r \in 1..Len(items) :
                                items[r].id = ret'.id /\ items[r].is_active)
             /\ ~ret'.ok => items' = items]_vars

\* such an update was just refused on a soft-deleted item
C4_Witness ==
    /\ ret.op = "update" /\ Recognized(ret.arg) # {} /\ ~ret.ok
    /\ \E r \in 1..Len(items) : items[r].id = ret.id /\ ~items[r].is_active

\* the active rows, newest first: created_at descending, and among equal
\* created_at the row created later (the larger id) first
NewestFirst ==
    CHOOSE s \in OrderByCreatedDesc(ActiveRows) :
        \A i, j \in 1..Len(s) :
            (i < j /\ items[s[i]].created_at = items[s[j]].created_at)
                => items[s[i]].id > items[s[j]].id

\* C6: for every page size k, the pages list(k, 0), list(k, k), list(k, 2k),
\* list(k, 3k) read from one state of the store are, joined, all active items
\* once each, newest first, also among items of equal createdAt.
C6_PagesPartitionNewestFirst ==
    \A k \in 1..(MaxItems + 1) :
        \A p0 \in get_all_knowledge_items(k, 0), p1 \in get_all_knowledge_items(k, k),
           p2 \in get_all_knowledge_items(k, 2 * k),
           p3 \in get_all_knowledge_items(k, 3 * k) :
            p0 \o p1 \o p2 \o p3 = ItemsOf(NewestFirst)

\* q occurs in t, letters compared without case
ContainsNoCase(t, q) ==
    \E k \in 0..(Len(t) - Len(q)) :
        \A m \in 1..Len(q) : Lower(t[k + m]) = Lower(q[m])

\* the active rows whose title, content or summary contains q
Containing(q) ==
    {r \in 1..Len(items) :
        /\ items[r].is_active
        /\ \/ ContainsNoCase(items[r].title, q)
           \/ ContainsNoCase(items[r].content, q)
           \/ items[r].summary # Null /\ ContainsNoCase(items[r].summary[1], q)}

\* C7: search(q, limit) returns at most limit items (none for a limit below
\* zero), and when at most limit active items contain q in title, content or
\* summary, it returns them all.
C7_SearchBoundedAndComplete ==
    \A q \in Queries, limit \in Limits :
        \A rows \in search_knowledge_items(Query(q), limit) :
            /\ Len(rows) <= (IF limit < 0 THEN 0 ELSE limit)
            /\ Cardinality(Containing(Query(q))) <= limit
                   => \A r \in Containing(Query(q)) : HasId(rows, items[r].id)

\* C8: no step changes the id, source_type or created_at of a stored item, and
\* no item leaves the table.
C8_IdentityColumnsImmutable ==
    [][/\ Len(items') >= Len(items)
       /\ \A r \in 1..Len(items) :
              /\ items'[r].id = items[r].id
              /\ items'[r].source_type = items[r].source_type
              /\ items'[r].created_at = items[r].created_at]_vars

\* an update naming id, source_type, created_at and is_active has just
\* returned true for an item that is not of type file
C8_Witness ==
    /\ ret.op = "update" /\ ret.arg = 3 /\ ret.ok
    /\ \E r \in 1..Len(items) :
          items[r].id = ret.id /\ items[r].source_type # "file" /\ items[r].created_at # 7

\* C9: no connection is left open once the operation that opened it is over.
C9_NoConnectionLeftOpen == openConns = 0

-----------------------------------------------------------------------------
(* Properties of the store, continued *)

\* where tag first occurs when the active items are read newest first
FirstSeen(tag) ==
    LET at == {<<i, k>> \in (1..Len(NewestFirst)) \X (1..4) :
                  /\ Truthy(RowToItem(items[NewestFirst[i]]).tags)
                  /\ k <= Len(RowToItem(items[NewestFirst[i]]).tags[1])
                  /\ RowToItem(items[NewestFirst[i]]).tags[1][k] = tag}
    IN CHOOSE p \in at :
           \A q \in at : p[1] < q[1] \/ (p[1] = q[1] /\ p[2] <= q[2])

CountOfType(counts, t) == IF t \in DOMAIN counts THEN counts[t] ELSE 0

\* C14: stats gives the number of active items as total, per source type the
\* number of active items of that type, these summing to the total, and at
\* most 10 tags with their frequency over the active items, frequencies never
\* rising, tags of equal frequency in the order of their first occurrence when
\* the items are read most recently created first.
C14_StatsOverActiveItems ==
    \A st \in get_knowledge_stats :
        /\ st.total_items = Cardinality(ActiveRows)
        /\ \A t \in DOMAIN st.source_types :
               st.source_types[t]
                   = Cardinality({r \in ActiveRows : items[r].source_type = t})
        /\ CountOfType(st.source_types, "text") + CountOfType(st.source_types, "url")
               + CountOfType(st.source_types, "file") = st.total_items
        /\ Len(st.popular_tags) <= 10
        /\ \A k \in 1..Len(st.popular_tags) :
               st.popular_tags[k][2] = TagOccurrences(ActiveRows, st.popular_tags[k][1])
        /\ \A j, k \in 1..Len(st.popular_tags) :
               j < k => /\ st.popular_tags[j][2] >= st.popular_tags[k][2]
                        /\ st.popular_tags[j][2] = st.popular_tags[k][2]
                               => LET p == FirstSeen(st.popular_tags[j][1])
                                      q == FirstSeen(st.popular_tags[k][1])
                                  IN p[1] < q[1] \/ (p[1] = q[1] /\ p[2] < q[2])

\* C15: a step never changes or removes an entry of the processing log; a
\* log call with a processing type succeeds whatever item id it names, and
\* adds one entry, the last, under an id no earlier entry has; any other
\* step leaves the log as it is.
C15_LogAppendOnly ==
    [][/\ Len(logs') >= Len(logs)
       /\ \A k \in 1..Len(logs) : logs'[k] = logs[k]
       /\ (ret'.op = "log" /\ LogInput(ret'.arg).processing_type # Null)
              => /\ ~ret'.raised
                 /\ Len(logs') = Len(logs) + 1
                 /\ logs'[Len(logs')].id = ret'.id
                 /\ logs'[Len(logs')].knowledge_item_id
                        = LogInput(ret'.arg).knowledge_item_id
                 /\ \A k \in 1..Len(logs) : logs[k].id # ret'.id
       /\ ret'.op # "log" => logs' = logs]_vars

\* the log holds an entry for an item never created and, after it, one for
\* an item that had been soft-deleted before
C15_Witness ==
    /\ ret.op = "log" /\ ~ret.raised
    /\ Len(logs) = 2
    /\ logs[1].knowledge_item_id = 9 /\ ~HasId(items, 9)
    /\ logs[2].knowledge_item_id = 1
    /\ \E r \in 1..Len(items) : items[r].id = 1 /\ ~items[r].is_active

Max0(n) == IF n < 0 THEN 0 ELSE n

\* C16: a list request with limit <= 1000 and offset >= 0, with or without a
\* search string, returns at most 1000 items and at most limit items (none
\* for a limit below zero); a search request with limit <= 500 returns at most
\* 500 items.
C16_AcceptedRequestsAreBounded ==
    /\ \A limit \in RouteLimits, offset \in RouteOffsets, search \in RouteSearches :
           ListAccepted(limit, offset)
               => \A rows \in get_knowledge_items(limit, offset, search) :
                      Len(rows) <= 1000 /\ Len(rows) <= Max0(limit)
    /\ \A q \in Queries, limit \in RouteLimits :
           SearchAccepted(limit)
               => \A rows \in search_route(Query(q), limit) : Len(rows) <= 500

\* C17: every stored item has source_type text, url or file; a create call
\* with another source_type raises, returns no id and leaves the table, and so
\* what every get returns, as it was.
C17_SourceTypeChecked ==
    /\ [](\A r \in 1..Len(items) : items[r].source_type \in {"text", "url", "file"})
    /\ [][(ret'.op = "create"
              /\ CreateInput(ret'.arg).source_type \notin {"text", "url", "file"})
             => /\ ret'.raised /\ ret'.id = 0
                /\ items' = items
                /\ \A id \in Ids : get_knowledge_item(id)' = get_knowledge_item(id)]_vars

\* a create with source_type "bogus" has just been refused by a store that
\* holds an item
C17_Witness ==
    /\ ret.op = "create" /\ ret.raised
    /\ CreateInput(ret.arg).source_type = "bogus"
    /\ Len(items) >= 1

\* C19: search(q, limit) returns only active items that contain q, taken
\* literally and letters compared without case, in title, content or summary,
\* and returns them by created_at descending.
C19_SearchIsLiteralSubstring ==
    \A q \in Queries, limit \in Limits :
        \A rows \in search_knowledge_items(Query(q), limit) :
            \A k \in 1..Len(rows) :
                /\ \E r \in Containing(Query(q)) : items[r].id = rows[k].id
                /\ \A j \in 1..(k - 1) : rows[j].created_at >= rows[k].created_at

\* C20: every stored item that has a source_url is of source_type url.
C20_SourceUrlOnlyOnUrlItems ==
    \A r \in 1..Len(items) :
        items[r].source_url # Null => items[r].source_type = "url"

\* C21: every stored item has a non-empty title and a non-empty content.
C21_TitleAndContentNonEmpty ==
    \A r \in 1..Len(items) : Len(items[r].title) > 0 /\ Len(items[r].content) > 0

\* the call of the step names item id and returned true
Touched(id) == ret'.op \in {"update", "delete"} /\ ret'.ok /\ ret'.id = id

\* C22: an update or delete call that returns true for an item sets its
\* updated_at to the time of the call; a call that returns false, and a call
\* on another item, leave it as it was; so updated_at never decreases and is
\* never earlier than created_at.
C22_UpdatedAtRefreshed ==
    /\ [][\A r \in 1..Len(items) :
              /\ Touched(items[r].id) => items'[r].updated_at = now
              /\ ~Touched(items[r].id) => items'[r].updated_at = items[r].updated_at
              /\ items'[r].updated_at >= items[r].updated_at]_vars
    /\ [](\A r \in 1..Len(items) : items[r].updated_at >= items[r].created_at)

\* an item created in an earlier second has just been deleted, next to an
\* item left as it was created
C22_Witness ==
    /\ ret.op = "delete" /\ ret.ok
    /\ \E r \in 1..Len(items) :
          /\ items[r].id = ret.id
          /\ items[r].created_at < now /\ items[r].updated_at = now
    /\ \E r \in 1..Len(items) :
          items[r].id # ret.id /\ items[r].updated_at = items[r].created_at

\* the finished delete calls on id that came in while the item was active
FinishedDeletes(id) ==
    {p \in Workers : /\ calling[p].pc = "done" /\ calling[p].op = "delete"
                     /\ calling[p].id = id /\ calling[p].on_active}

\* C23: of the delete calls that come in on one active item, however their
\* statements interleave, one returns true and the others false; an update
\* returns true only when its write went into the table while the item was
\* active; and a soft-deleted item is never changed again.
C23_RacesAreSerialised ==
    /\ [](\A id \in Ids :
              /\ deleted[id] <= 1
              /\ Cardinality({p \in FinishedDeletes(id) : calling[p].ok}) <= 1
              /\ FinishedDeletes(id) # {} => deleted[id] = 1)
    /\ [][/\ \A r \in 1..Len(items) : ~items[r].is_active => items'[r] = items[r]
          /\ \A p \in Workers :
                 /\ (calling[p].pc = "committed" /\ calling'[p].pc = "done" /\ calling'[p].ok)
                        => calling[p].pending # Null
                 /\ (calling[p].pc = "executed" /\ calling'[p].pc = "committed"
                         /\ calling[p].pending # Null)
                        => \E r \in 1..Len(items) :
                               /\ items[r].id = calling[p].id /\ items[r].is_active
                               /\ items'[r] = calling[p].pending[1]]_vars

\* two delete calls came in on the same active item; both are over, one
\* returned true and the other false
C23_Witness ==
    \E p, q \in Workers :
        /\ p # q /\ calling[p].id = calling[q].id
        /\ p \in FinishedDeletes(calling[p].id) /\ q \in FinishedDeletes(calling[q].id)
        /\ calling[p].ok /\ ~calling[q].ok

-----------------------------------------------------------------------------
(* Properties of the processing pipeline *)

\* the request carries the payload of its source type
PassesValidation ==
    \/ proc.source_type = "url" /\ Len(Url(proc.url)) > 0
    \/ proc.source_type = "text" /\ Len(Text(proc.text)) > 0

Succeeded == proc.out.kind = "response" /\ proc.out.status = "success"

EmptyResult ==
    /\ proc.out.kind = "response" /\ proc.out.status = "error"
    /\ proc.out.summary = <<>> /\ proc.out.tags = <<>> /\ proc.out.analysis = <<>>

C10_OutboundCalls ==
    proc.op = "process" =>
        LET url == Url(proc.url)
            lacking == Len(UrlScheme(url)) = 0 \/ Len(UrlNetloc(url)) = 0
        IN /\ (proc.source_type = "url" /\ lacking) => proc.out.calls = 0
           /\ (proc.source_type = "url" /\ lacking /\ Len(url) > 0)
                  => /\ proc.out.kind = "http_exception"
                     /\ proc.out.detail[Len(proc.out.detail)] = "Invalid URL format"
           /\ proc.source_type # "url" => proc.out.calls = 0
           /\ (proc.source_type = "url" /\ ~lacking) => proc.out.calls = 1

\* a request for "not-a-url" has just been refused
C10_Witness ==
    /\ proc.op = "process" /\ proc.source_type = "url" /\ proc.url = 2
    /\ proc.out.kind = "http_exception" /\ proc.out.calls = 0

\* ---- the processing pipeline, continued ----

\* the fetch of the request went through
ExtractionDone ==
    \/ proc.source_type = "text"
    \/ proc.source_type = "url" /\ proc.net # 0 /\ NetOutcome(proc.net).kind = "ok"

\* the text the request's content comes down to
Extracted ==
    IF proc.source_type = "url" THEN CleanText(NetOutcome(proc.net).body)
    ELSE Text(proc.text)

NoContentFault ==
    /\ proc.out.kind = "http_exception" /\ proc.out.status_code = 400
    /\ proc.out.detail = <<"No valid content provided">>

TooShortFault ==
    /\ proc.out.kind = "http_exception" /\ proc.out.status_code = 400
    /\ proc.out.detail = <<"Content too short for processing">>

\* a response is built only from what mock_ai_processing returned or raised
EngineInvoked == proc.out.kind = "response"

\* C11: a request is refused with the no-content fault, before any fetch or
\* analysis, exactly when it is neither a url request with a non-empty url nor
\* a text request with a non-empty text; otherwise, once the text is extracted,
\* it is refused as too short exactly when the trimmed text has fewer than 10
\* characters; the analysis engine runs only when both checks pass.
C11_ValidationOrder ==
    proc.op = "process" =>
        /\ NoContentFault <=> ~PassesValidation
        /\ ~PassesValidation => (proc.out.calls = 0 /\ ~EngineInvoked)
        /\ (PassesValidation /\ ExtractionDone)
               => (TooShortFault <=> Len(Strip(Extracted)) < 10)
        /\ TooShortFault => (PassesValidation /\ ExtractionDone)
        /\ EngineInvoked
               => (PassesValidation /\ ExtractionDone /\ Len(Strip(Extracted)) >= 10)

\* a text of eleven characters, five of them once trimmed, was refused as too short
C11_Witness ==
    /\ proc.op = "process" /\ proc.source_type = "text" /\ proc.text = 3
    /\ TooShortFault

\* the engine has run: by itself, or for a request that succeeded
EngineRan == proc.op = "analyze" \/ (proc.op = "process" /\ Succeeded)

EngineText == IF proc.op = "analyze" THEN Text(proc.text) ELSE Extracted

BucketOrder == <<"AI", "Development", "Database", "Web", "Research">>

Triggers(tag) ==
    CASE tag = "AI" -> AiWords
      [] tag = "Development" -> DevelopmentWords
      [] tag = "Database" -> DatabaseWords
      [] tag = "Web" -> WebWords
      [] OTHER -> ResearchWords

\* w occurs in the lowercased text the engine was given
Occurs(w) == Contains(LowerText(EngineText), w)

Matched(tag) == \E w \in Triggers(tag) : Occurs(w)

BucketIndex(tag) == CHOOSE b \in 1..Len(BucketOrder) : BucketOrder[b] = tag

\* C12: the tags are the buckets AI, Development, Database, Web, Research that
\* have a trigger word in the lowercased text, each once and in that order;
\* when no bucket has one they are exactly General, Knowledge, which never come
\* with a bucket tag.
C12_TagsFollowBuckets ==
    EngineRan =>
        LET tags == proc.out.tags
        IN IF \A b \in 1..Len(BucketOrder) : ~Matched(BucketOrder[b])
           THEN tags = <<"General", "Knowledge">>
           ELSE /\ \A k \in 1..Len(tags) : \E b \in 1..Len(BucketOrder) : tags[k] = BucketOrder[b]
                /\ \A b \in 1..Len(BucketOrder) :
                       Matched(BucketOrder[b]) <=> \E k \in 1..Len(tags) : tags[k] = BucketOrder[b]
                /\ \A j, k \in 1..Len(tags) :
                       j < k => BucketIndex(tags[j]) < BucketIndex(tags[k])

\* "ml research programming" was tagged AI, Development, Research
C12_Witness ==
    /\ proc.op = "analyze" /\ proc.text = 7
    /\ proc.out.tags = <<"AI", "Development", "Research">>

ClauseOf == proc.out.analysis[1].covers

\* C13 as stated: the clause is the AI one when a trigger word of the AI bucket
\* occurs in the lowercased text, otherwise the development one when a trigger
\* word of the Development bucket occurs, otherwise the database one when a
\* trigger word of the Database bucket occurs, otherwise the generic one.
C13_ClauseFollowsBucketTriggers ==
    EngineRan =>
        ClauseOf = IF Matched("AI")
                   THEN "artificial intelligence concepts and applications."
                   ELSE IF Matched("Development")
                        THEN "software development practices and methodologies."
                        ELSE IF Matched("Database")
                             THEN "database design and management principles."
                             ELSE "general knowledge and information."

\* C13 amended: the clause is the AI one when "ai" or "artificial intelligence"
\* occurs in the lowercased text, otherwise the development one when
\* "development" or "programming" occurs, otherwise the database one when
\* "database" occurs, otherwise the generic one; the other trigger words of the
\* three buckets do not count.
C13_ClauseFollowsOwnKeywords ==
    EngineRan =>
        LET ai == Occurs(<<"a", "i">>) \/ Occurs(<<"a", "r", "t", "i", "f", "i", "c", "i", "a", "l", " ", "i", "n", "t", "e", "l", "l", "i", "g", "e", "n", "c", "e">>)
            development == Occurs(<<"d", "e", "v", "e", "l", "o", "p", "m", "e", "n", "t">>) \/ Occurs(<<"p", "r", "o", "g", "r", "a", "m", "m", "i", "n", "g">>)
            database == Occurs(<<"d", "a", "t", "a", "b", "a", "s", "e">>)
        IN /\ (ClauseOf = "artificial intelligence concepts and applications.") <=> ai
           /\ (ClauseOf = "software development practices and methodologies.")
                  <=> (~ai /\ development)
           /\ (ClauseOf = "database design and management principles.")
                  <=> (~ai /\ ~development /\ database)
           /\ (ClauseOf = "general knowledge and information.")
                  <=> (~ai /\ ~development /\ ~database)

\* "ml research programming" is tagged AI and yet described as development
C13_Witness ==
    /\ proc.op = "analyze" /\ proc.text = 7
    /\ proc.out.tags[1] = "AI"
    /\ ClauseOf = "software development practices and methodologies."

\* C18: with n the number of whitespace-separated words of the text, the
\* summary is its first min(50, n div 3) words joined by single spaces,
\* followed by "..." exactly when that count is less than n; a text of one or
\* two words gives the three dots alone.
C18_SummaryIsFirstThird ==
    EngineRan =>
        LET words == Split(EngineText)
            n == Len(words)
            count == Min(50, n \div 3)
            summary == proc.out.summary
            dotted == /\ Len(summary) >= 3
                      /\ SubSeq(summary, Len(summary) - 2, Len(summary)) = <<".", ".", ".">>
            body == IF dotted THEN SubSeq(summary, 1, Len(summary) - 3) ELSE summary
        IN /\ dotted <=> count < n
           /\ Split(body) = SubSeq(words, 1, count)
           /\ \A k \in 1..Len(body) :
                  body[k] \in Whitespace
                      => /\ body[k] = " "
                         /\ k > 1 /\ k < Len(body)
                         /\ body[k + 1] \notin Whitespace
           /\ n \in {1, 2} => summary = <<".", ".", ".">>

\* a text of 160 words was summarised by its first fifty
C18_Witness ==
    /\ proc.op = "analyze" /\ proc.text = 10
    /\ Len(Split(proc.out.summary)) = 50
    /\ Len(proc.out.summary) = 102

====
